---- MODULE Spec2Model ----
\* Model of sarama's Config (config.go): the default constructor NewConfig, the
\* caller's field overrides, and Config.Validate with its advisory log lines and
\* its ConfigurationError results.
\*
\* A Config is a function from the dotted field path used in the Go source
\* ("Net.MaxOpenRequests", "Producer.Flush.Bytes", ...) to the field's value.
\* time.Duration values are counted in microseconds instead of nanoseconds so that
\* 10 * Minute fits the model checker's integers; Validate only compares durations
\* with 0, 1ms and 100ms and takes them modulo 1ms, so one tick below or above a
\* millisecond boundary behaves as one nanosecond below or above it does.
EXTENDS Integers, Sequences, FiniteSets, TLC

VARIABLES c, muts, calls, err, log, lastSet

vars == <<c, muts, calls, err, log, lastSet>>

\* ---------------------------------------------------------------- bounds
\* how many field assignments the caller makes after NewConfig
MaxMutations == 2
\* how many times in a row Validate is called on the same configuration
MaxCalls == 2

\* ---------------------------------------------------------------- time
\* one tick is a microsecond
Millisecond == 1000
Second == 1000 * Millisecond
Minute == 60 * Second

\* ---------------------------------------------------------------- collaborators
\* RequiredAcks enum: WaitForLocal is 1 (NoResponse 0, WaitForAll -1)
WaitForLocal == 1

\* the global request-size ceiling Validate reads; it is defined outside config.go,
\* the model takes a ceiling above the default Producer.MaxMessageBytes
forceFlushThreshold == 104847360

\* the two values a PartitionerConstructor field takes here
NilPartitioner == "nil"
NewHashPartitioner == "NewHashPartitioner"

\* the error values Validate returns
nil == [type |-> "nil", msg |-> ""]
ConfigurationError(m) == [type |-> "ConfigurationError", msg |-> m]

\* ---------------------------------------------------------------- Config
BoolFields == {"Producer.Return.Successes", "Producer.Return.Errors", "Consumer.Return.Errors"}

DurationFields ==
    {"Net.DialTimeout", "Net.ReadTimeout", "Net.WriteTimeout", "Net.KeepAlive",
     "Metadata.Retry.Backoff", "Metadata.RefreshFrequency",
     "Producer.Timeout", "Producer.Flush.Frequency", "Producer.Retry.Backoff",
     "Consumer.Retry.Backoff", "Consumer.MaxWaitTime"}

IntFields ==
    {"Net.MaxOpenRequests", "Metadata.Retry.Max",
     "Producer.MaxMessageBytes", "Producer.RequiredAcks", "Producer.Compression",
     "Producer.Flush.Bytes", "Producer.Flush.Messages", "Producer.Flush.MaxMessages",
     "Producer.Retry.Max",
     "Consumer.Fetch.Min", "Consumer.Fetch.Default", "Consumer.Fetch.Max",
     "ChannelBufferSize"}

Fields == IntFields \cup DurationFields \cup BoolFields \cup {"Producer.Partitioner", "ClientID"}

\* the zero value `&Config{}` gives a field
ZeroValue(f) ==
    IF f \in BoolFields THEN FALSE
    ELSE IF f = "ClientID" THEN ""
    ELSE IF f = "Producer.Partitioner" THEN NilPartitioner
    ELSE 0

\* NewConfig with the Consumer.Fetch.Min assignment dropped
NewConfigNoFetchMin ==
    [f \in Fields |->
        CASE f = "Net.MaxOpenRequests" -> 5
          [] f = "Net.DialTimeout" -> 30 * Second
          [] f = "Net.ReadTimeout" -> 30 * Second
          [] f = "Net.WriteTimeout" -> 30 * Second
          [] f = "Metadata.Retry.Max" -> 3
          [] f = "Metadata.Retry.Backoff" -> 250 * Millisecond
          [] f = "Metadata.RefreshFrequency" -> 10 * Minute
          [] f = "Producer.MaxMessageBytes" -> 1000000
          [] f = "Producer.RequiredAcks" -> WaitForLocal
          [] f = "Producer.Timeout" -> 10 * Second
          [] f = "Producer.Partitioner" -> NewHashPartitioner
          [] f = "Producer.Retry.Max" -> 3
          [] f = "Producer.Retry.Backoff" -> 100 * Millisecond
          [] f = "Producer.Return.Errors" -> TRUE
          [] f = "Consumer.Fetch.Default" -> 32768
          [] f = "Consumer.Retry.Backoff" -> 2 * Second
          [] f = "Consumer.MaxWaitTime" -> 250 * Millisecond
          [] f = "Consumer.Return.Errors" -> FALSE
          [] f = "ChannelBufferSize" -> 256
          [] OTHER -> ZeroValue(f)]

NewConfig ==
    [f \in Fields |->
        CASE f = "Net.MaxOpenRequests" -> 5
          [] f = "Net.DialTimeout" -> 30 * Second
          [] f = "Net.ReadTimeout" -> 30 * Second
          [] f = "Net.WriteTimeout" -> 30 * Second
          [] f = "Metadata.Retry.Max" -> 3
          [] f = "Metadata.Retry.Backoff" -> 250 * Millisecond
          [] f = "Metadata.RefreshFrequency" -> 10 * Minute
          [] f = "Producer.MaxMessageBytes" -> 1000000
          [] f = "Producer.RequiredAcks" -> WaitForLocal
          [] f = "Producer.Timeout" -> 10 * Second
          [] f = "Producer.Partitioner" -> NewHashPartitioner
          [] f = "Producer.Retry.Max" -> 3
          [] f = "Producer.Retry.Backoff" -> 100 * Millisecond
          [] f = "Producer.Return.Errors" -> TRUE
          [] f = "Consumer.Fetch.Min" -> 1
          [] f = "Consumer.Fetch.Default" -> 32768
          [] f = "Consumer.Retry.Backoff" -> 2 * Second
          [] f = "Consumer.MaxWaitTime" -> 250 * Millisecond
          [] f = "Consumer.Return.Errors" -> FALSE
          [] f = "ChannelBufferSize" -> 256
          [] OTHER -> ZeroValue(f)]

\* the values a caller assigns to a field: around each bound Validate tests
Domain(f) ==
    CASE f \in BoolFields -> BOOLEAN
      [] f = "ClientID" -> {"", "sarama", "app"}
      [] f = "Producer.Partitioner" -> {NilPartitioner, NewHashPartitioner}
      [] f = "Producer.Compression" -> {0, 1}
      [] f = "Producer.RequiredAcks" -> {-2, -1, 0, 1, 2}
      [] f = "Producer.MaxMessageBytes" ->
            {-1, 0, 1, 1000000, forceFlushThreshold - 1, forceFlushThreshold}
      [] f = "Producer.Flush.Bytes" -> {-1, 0, forceFlushThreshold - 1, forceFlushThreshold}
      [] f = "Producer.Flush.Messages" -> {-1, 0, 10}
      [] f = "Producer.Flush.MaxMessages" -> {-1, 0, 5, 10}
      [] f = "Producer.Timeout" -> {-1, 0, 1, 10 * Second}
      [] f = "Consumer.MaxWaitTime" ->
            {0, Millisecond - 1, Millisecond, Millisecond + 1, 50 * Millisecond,
             100 * Millisecond, 250 * Millisecond}
      [] f = "Consumer.Fetch.Min" -> {-1, 0, 1, 2}
      [] f \in {"Net.MaxOpenRequests", "Net.DialTimeout", "Net.ReadTimeout",
                "Net.WriteTimeout", "Consumer.Fetch.Default"} -> {-1, 0, 1, NewConfig[f]}
      [] OTHER -> IF NewConfig[f] = 0 THEN {-1, 0, 1} ELSE {-1, 0, NewConfig[f]}

\* ---------------------------------------------------------------- Validate
\* the lines Validate hands to Logger.Println, in the order it tests them
\* (Go's % keeps the dividend's sign and this % does not; the tests only ask
\* whether the remainder is zero, which both answer alike)
Advisories(cfg) ==
    (IF cfg["Producer.RequiredAcks"] > 1
        THEN <<"Producer.RequiredAcks > 1 is deprecated and will raise an exception with kafka >= 0.8.2.0.">>
        ELSE <<>>)
    \o (IF cfg["Producer.MaxMessageBytes"] >= forceFlushThreshold
        THEN <<"Producer.MaxMessageBytes is too close to MaxRequestSize; it will be ignored.">>
        ELSE <<>>)
    \o (IF cfg["Producer.Flush.Bytes"] >= forceFlushThreshold
        THEN <<"Producer.Flush.Bytes is too close to MaxRequestSize; it will be ignored.">>
        ELSE <<>>)
    \o (IF cfg["Producer.Timeout"] % Millisecond # 0
        THEN <<"Producer.Timeout only supports millisecond resolution; nanoseconds will be truncated.">>
        ELSE <<>>)
    \o (IF cfg["Consumer.MaxWaitTime"] < 100 * Millisecond
        THEN <<"Consumer.MaxWaitTime is very low, which can cause high CPU and network usage. See documentation for details.">>
        ELSE <<>>)
    \o (IF cfg["Consumer.MaxWaitTime"] % Millisecond # 0
        THEN <<"Consumer.MaxWaitTime only supports millisecond precision; nanoseconds will be truncated.">>
        ELSE <<>>)
    \o (IF cfg["ClientID"] = "sarama"
        THEN <<"ClientID is the default of 'sarama', you should consider setting it to something application-specific.">>
        ELSE <<>>)

\* ValidateNet with Net.KeepAlive tested as <= 0
ValidateNetKeepAliveStrict(cfg) ==
    IF cfg["Net.MaxOpenRequests"] <= 0 THEN ConfigurationError("Net.MaxOpenRequests must be > 0")
    ELSE IF cfg["Net.DialTimeout"] <= 0 THEN ConfigurationError("Net.DialTimeout must be > 0")
    ELSE IF cfg["Net.ReadTimeout"] <= 0 THEN ConfigurationError("Net.ReadTimeout must be > 0")
    ELSE IF cfg["Net.WriteTimeout"] <= 0 THEN ConfigurationError("Net.WriteTimeout must be > 0")
    ELSE IF cfg["Net.KeepAlive"] <= 0 THEN ConfigurationError("Net.KeepAlive must be >= 0")
    ELSE nil

\* the switch over the Net values: the first case that holds returns
ValidateNet(cfg) ==
    IF cfg["Net.MaxOpenRequests"] <= 0 THEN ConfigurationError("Net.MaxOpenRequests must be > 0")
    ELSE IF cfg["Net.DialTimeout"] <= 0 THEN ConfigurationError("Net.DialTimeout must be > 0")
    ELSE IF cfg["Net.ReadTimeout"] <= 0 THEN ConfigurationError("Net.ReadTimeout must be > 0")
    ELSE IF cfg["Net.WriteTimeout"] <= 0 THEN ConfigurationError("Net.WriteTimeout must be > 0")
    ELSE IF cfg["Net.KeepAlive"] < 0 THEN ConfigurationError("Net.KeepAlive must be >= 0")
    ELSE nil

\* the switch over the Metadata values
ValidateMetadata(cfg) ==
    IF cfg["Metadata.Retry.Max"] < 0 THEN ConfigurationError("Metadata.Retry.Max must be >= 0")
    ELSE IF cfg["Metadata.Retry.Backoff"] < 0 THEN ConfigurationError("Metadata.Retry.Backoff must be >= 0")
    ELSE IF cfg["Metadata.RefreshFrequency"] < 0 THEN ConfigurationError("Metadata.RefreshFrequency must be >= 0")
    ELSE nil

\* ValidateProducer with the cross-field case comparing with <= instead of <
ValidateProducerCrossLeq(cfg) ==
    IF cfg["Producer.MaxMessageBytes"] <= 0 THEN ConfigurationError("Producer.MaxMessageBytes must be > 0")
    ELSE IF cfg["Producer.RequiredAcks"] < -1 THEN ConfigurationError("Producer.RequiredAcks must be >= -1")
    ELSE IF cfg["Producer.Timeout"] <= 0 THEN ConfigurationError("Producer.Timeout must be > 0")
    ELSE IF cfg["Producer.Partitioner"] = NilPartitioner THEN ConfigurationError("Producer.Partitioner must not be nil")
    ELSE IF cfg["Producer.Flush.Bytes"] < 0 THEN ConfigurationError("Producer.Flush.Bytes must be >= 0")
    ELSE IF cfg["Producer.Flush.Messages"] < 0 THEN ConfigurationError("Producer.Flush.Messages must be >= 0")
    ELSE IF cfg["Producer.Flush.Frequency"] < 0 THEN ConfigurationError("Producer.Flush.Frequency must be >= 0")
    ELSE IF cfg["Producer.Flush.MaxMessages"] < 0 THEN ConfigurationError("Producer.Flush.MaxMessages must be >= 0")
    ELSE IF cfg["Producer.Flush.MaxMessages"] > 0
            /\ cfg["Producer.Flush.MaxMessages"] <= cfg["Producer.Flush.Messages"]
        THEN ConfigurationError("Producer.Flush.MaxMessages must be >= Producer.Flush.Messages when set")
    ELSE IF cfg["Producer.Retry.Max"] < 0 THEN ConfigurationError("Producer.Retry.Max must be >= 0")
    ELSE IF cfg["Producer.Retry.Backoff"] < 0 THEN ConfigurationError("Producer.Retry.Backoff must be >= 0")
    ELSE nil

\* ValidateProducer with an upper bound on Producer.RequiredAcks
ValidateProducerAcksUpperBound(cfg) ==
    IF cfg["Producer.MaxMessageBytes"] <= 0 THEN ConfigurationError("Producer.MaxMessageBytes must be > 0")
    ELSE IF cfg["Producer.RequiredAcks"] < -1 \/ cfg["Producer.RequiredAcks"] > 1
        THEN ConfigurationError("Producer.RequiredAcks must be >= -1")
    ELSE IF cfg["Producer.Timeout"] <= 0 THEN ConfigurationError("Producer.Timeout must be > 0")
    ELSE IF cfg["Producer.Partitioner"] = NilPartitioner THEN ConfigurationError("Producer.Partitioner must not be nil")
    ELSE IF cfg["Producer.Flush.Bytes"] < 0 THEN ConfigurationError("Producer.Flush.Bytes must be >= 0")
    ELSE IF cfg["Producer.Flush.Messages"] < 0 THEN ConfigurationError("Producer.Flush.Messages must be >= 0")
    ELSE IF cfg["Producer.Flush.Frequency"] < 0 THEN ConfigurationError("Producer.Flush.Frequency must be >= 0")
    ELSE IF cfg["Producer.Flush.MaxMessages"] < 0 THEN ConfigurationError("Producer.Flush.MaxMessages must be >= 0")
    ELSE IF cfg["Producer.Flush.MaxMessages"] > 0
            /\ cfg["Producer.Flush.MaxMessages"] < cfg["Producer.Flush.Messages"]
        THEN ConfigurationError("Producer.Flush.MaxMessages must be >= Producer.Flush.Messages when set")
    ELSE IF cfg["Producer.Retry.Max"] < 0 THEN ConfigurationError("Producer.Retry.Max must be >= 0")
    ELSE IF cfg["Producer.Retry.Backoff"] < 0 THEN ConfigurationError("Producer.Retry.Backoff must be >= 0")
    ELSE nil

\* the switch over the Producer values
ValidateProducer(cfg) ==
    IF cfg["Producer.MaxMessageBytes"] <= 0 THEN ConfigurationError("Producer.MaxMessageBytes must be > 0")
    ELSE IF cfg["Producer.RequiredAcks"] < -1 THEN ConfigurationError("Producer.RequiredAcks must be >= -1")
    ELSE IF cfg["Producer.Timeout"] <= 0 THEN ConfigurationError("Producer.Timeout must be > 0")
    ELSE IF cfg["Producer.Partitioner"] = NilPartitioner THEN ConfigurationError("Producer.Partitioner must not be nil")
    ELSE IF cfg["Producer.Flush.Bytes"] < 0 THEN ConfigurationError("Producer.Flush.Bytes must be >= 0")
    ELSE IF cfg["Producer.Flush.Messages"] < 0 THEN ConfigurationError("Producer.Flush.Messages must be >= 0")
    ELSE IF cfg["Producer.Flush.Frequency"] < 0 THEN ConfigurationError("Producer.Flush.Frequency must be >= 0")
    ELSE IF cfg["Producer.Flush.MaxMessages"] < 0 THEN ConfigurationError("Producer.Flush.MaxMessages must be >= 0")
    ELSE IF cfg["Producer.Flush.MaxMessages"] > 0
            /\ cfg["Producer.Flush.MaxMessages"] < cfg["Producer.Flush.Messages"]
        THEN ConfigurationError("Producer.Flush.MaxMessages must be >= Producer.Flush.Messages when set")
    ELSE IF cfg["Producer.Retry.Max"] < 0 THEN ConfigurationError("Producer.Retry.Max must be >= 0")
    ELSE IF cfg["Producer.Retry.Backoff"] < 0 THEN ConfigurationError("Producer.Retry.Backoff must be >= 0")
    ELSE nil

\* ValidateConsumer with the Fetch.Default case placed before the Fetch.Min case
ValidateConsumerDefaultFirst(cfg) ==
    IF cfg["Consumer.Fetch.Default"] <= 0 THEN ConfigurationError("Consumer.Fetch.Default must be > 0")
    ELSE IF cfg["Consumer.Fetch.Min"] <= 0 THEN ConfigurationError("Consumer.Fetch.Min must be > 0")
    ELSE IF cfg["Consumer.Fetch.Max"] < 0 THEN ConfigurationError("Consumer.Fetch.Max must be >= 0")
    ELSE IF cfg["Consumer.MaxWaitTime"] < 1 * Millisecond THEN ConfigurationError("Consumer.MaxWaitTime must be > 1ms")
    ELSE IF cfg["Consumer.Retry.Backoff"] < 0 THEN ConfigurationError("Consumer.Retry.Backoff must be >= 0")
    ELSE nil

\* the switch over the Consumer values
ValidateConsumer(cfg) ==
    IF cfg["Consumer.Fetch.Min"] <= 0 THEN ConfigurationError("Consumer.Fetch.Min must be > 0")
    ELSE IF cfg["Consumer.Fetch.Default"] <= 0 THEN ConfigurationError("Consumer.Fetch.Default must be > 0")
    ELSE IF cfg["Consumer.Fetch.Max"] < 0 THEN ConfigurationError("Consumer.Fetch.Max must be >= 0")
    ELSE IF cfg["Consumer.MaxWaitTime"] < 1 * Millisecond THEN ConfigurationError("Consumer.MaxWaitTime must be > 1ms")
    ELSE IF cfg["Consumer.Retry.Backoff"] < 0 THEN ConfigurationError("Consumer.Retry.Backoff must be >= 0")
    ELSE nil

\* the switch over the shared values
ValidateMisc(cfg) ==
    IF cfg["ChannelBufferSize"] < 0 THEN ConfigurationError("ChannelBufferSize must be >= 0")
    ELSE nil

\* the switch statements run one after the other: the first that returns an error
\* ends Validate, nil when every switch fell through
FirstError(results) ==
    IF results[1] # nil THEN results[1]
    ELSE IF results[2] # nil THEN results[2]
    ELSE IF results[3] # nil THEN results[3]
    ELSE IF results[4] # nil THEN results[4]
    ELSE results[5]

\* the error Validate returns: the Net, Metadata, Producer, Consumer and misc
\* switches in this order
ValidateErr(cfg) ==
    FirstError(<<ValidateNet(cfg), ValidateMetadata(cfg), ValidateProducer(cfg),
                 ValidateConsumer(cfg), ValidateMisc(cfg)>>)

\* Validate with the Consumer switch placed before the Producer switch
ValidateConsumerBeforeProducer(cfg) ==
    [log |-> Advisories(cfg),
     err |-> FirstError(<<ValidateNet(cfg), ValidateMetadata(cfg), ValidateConsumer(cfg),
                          ValidateProducer(cfg), ValidateMisc(cfg)>>),
     cfg |-> cfg]

\* Validate with the Net switch placed before the advisories
ValidateNetBeforeAdvisories(cfg) ==
    [log |-> IF ValidateNet(cfg) # nil THEN <<>> ELSE Advisories(cfg),
     err |-> ValidateErr(cfg),
     cfg |-> cfg]

\* Validate that drops the sub-millisecond part of the two millisecond-resolution
\* durations it warns about
ValidateTruncating(cfg) ==
    [log |-> Advisories(cfg),
     err |-> ValidateErr(cfg),
     cfg |-> [cfg EXCEPT !["Producer.Timeout"] = @ - (@ % Millisecond),
                         !["Consumer.MaxWaitTime"] = @ - (@ % Millisecond)]]

\* c.Validate(): the lines logged, the error returned, and the receiver as the
\* call leaves it (no statement of Validate assigns to a field)
Validate(cfg) ==
    [log |-> Advisories(cfg),
     err |-> ValidateErr(cfg),
     cfg |-> cfg]

\* ---------------------------------------------------------------- state machine
\* c        the Config
\* muts     field assignments made since NewConfig
\* calls    Validate calls made since the last field assignment
\* err, log the error returned and the lines logged by the latest of those calls
\* lastSet  history of the assignments, kept by SpecTracked only: the field last
\*          assigned when the Config had passed Validate just before the
\*          assignment, "" otherwise
Init ==
    /\ c = NewConfig
    /\ muts = 0
    /\ calls = 0
    /\ err = nil
    /\ log = <<>>
    /\ lastSet = ""

\* the caller assigns one exported field: c.<f> = v
Assign(f, v) ==
    /\ muts < MaxMutations
    /\ v # c[f]
    /\ c' = [c EXCEPT ![f] = v]
    /\ muts' = muts + 1
    /\ calls' = 0
    /\ err' = nil
    /\ log' = <<>>

SetField ==
    \E f \in Fields : \E v \in Domain(f) :
        /\ Assign(f, v)
        /\ UNCHANGED lastSet

\* the same assignment, remembered in lastSet
SetFieldTracked ==
    \E f \in Fields : \E v \in Domain(f) :
        /\ Assign(f, v)
        /\ lastSet' = IF calls > 0 /\ err = nil THEN f ELSE ""

\* the caller calls c.Validate()
ValidateCall ==
    /\ calls < MaxCalls
    /\ c' = Validate(c).cfg
    /\ err' = Validate(c).err
    /\ log' = Validate(c).log
    /\ calls' = calls + 1
    /\ UNCHANGED <<muts, lastSet>>

Next == SetField \/ ValidateCall

Spec == Init /\ [][Next]_vars

NextTracked == SetFieldTracked \/ ValidateCall

SpecTracked == Init /\ [][NextTracked]_vars

\* ---------------------------------------------------------------- the fatal checks
\* The fatal checks of the data-model table, in the table's order. kind "gt" is
\* violated by a value <= bound, "ge" by a value < bound, "set" by a nil reference,
\* "cross" by 0 < Flush.MaxMessages < Flush.Messages. Consumer.MaxWaitTime is listed
\* with the condition Validate tests (< 1ms).
TableOrder ==
    <<[ns |-> "Net", field |-> "Net.MaxOpenRequests", kind |-> "gt", bound |-> 0, msg |-> "Net.MaxOpenRequests must be > 0"],
      [ns |-> "Net", field |-> "Net.DialTimeout", kind |-> "gt", bound |-> 0, msg |-> "Net.DialTimeout must be > 0"],
      [ns |-> "Net", field |-> "Net.ReadTimeout", kind |-> "gt", bound |-> 0, msg |-> "Net.ReadTimeout must be > 0"],
      [ns |-> "Net", field |-> "Net.WriteTimeout", kind |-> "gt", bound |-> 0, msg |-> "Net.WriteTimeout must be > 0"],
      [ns |-> "Net", field |-> "Net.KeepAlive", kind |-> "ge", bound |-> 0, msg |-> "Net.KeepAlive must be >= 0"],
      [ns |-> "Metadata", field |-> "Metadata.Retry.Max", kind |-> "ge", bound |-> 0, msg |-> "Metadata.Retry.Max must be >= 0"],
      [ns |-> "Metadata", field |-> "Metadata.Retry.Backoff", kind |-> "ge", bound |-> 0, msg |-> "Metadata.Retry.Backoff must be >= 0"],
      [ns |-> "Metadata", field |-> "Metadata.RefreshFrequency", kind |-> "ge", bound |-> 0, msg |-> "Metadata.RefreshFrequency must be >= 0"],
      [ns |-> "Producer", field |-> "Producer.MaxMessageBytes", kind |-> "gt", bound |-> 0, msg |-> "Producer.MaxMessageBytes must be > 0"],
      [ns |-> "Producer", field |-> "Producer.RequiredAcks", kind |-> "ge", bound |-> -1, msg |-> "Producer.RequiredAcks must be >= -1"],
      [ns |-> "Producer", field |-> "Producer.Timeout", kind |-> "gt", bound |-> 0, msg |-> "Producer.Timeout must be > 0"],
      [ns |-> "Producer", field |-> "Producer.Partitioner", kind |-> "set", bound |-> 0, msg |-> "Producer.Partitioner must not be nil"],
      [ns |-> "Producer", field |-> "Producer.Flush.Bytes", kind |-> "ge", bound |-> 0, msg |-> "Producer.Flush.Bytes must be >= 0"],
      [ns |-> "Producer", field |-> "Producer.Flush.Messages", kind |-> "ge", bound |-> 0, msg |-> "Producer.Flush.Messages must be >= 0"],
      [ns |-> "Producer", field |-> "Producer.Flush.Frequency", kind |-> "ge", bound |-> 0, msg |-> "Producer.Flush.Frequency must be >= 0"],
      [ns |-> "Producer", field |-> "Producer.Flush.MaxMessages", kind |-> "ge", bound |-> 0, msg |-> "Producer.Flush.MaxMessages must be >= 0"],
      [ns |-> "Producer", field |-> "Producer.Flush.MaxMessages", kind |-> "cross", bound |-> 0, msg |-> "Producer.Flush.MaxMessages must be >= Producer.Flush.Messages when set"],
      [ns |-> "Producer", field |-> "Producer.Retry.Max", kind |-> "ge", bound |-> 0, msg |-> "Producer.Retry.Max must be >= 0"],
      [ns |-> "Producer", field |-> "Producer.Retry.Backoff", kind |-> "ge", bound |-> 0, msg |-> "Producer.Retry.Backoff must be >= 0"],
      [ns |-> "Consumer", field |-> "Consumer.Retry.Backoff", kind |-> "ge", bound |-> 0, msg |-> "Consumer.Retry.Backoff must be >= 0"],
      [ns |-> "Consumer", field |-> "Consumer.Fetch.Min", kind |-> "gt", bound |-> 0, msg |-> "Consumer.Fetch.Min must be > 0"],
      [ns |-> "Consumer", field |-> "Consumer.Fetch.Default", kind |-> "gt", bound |-> 0, msg |-> "Consumer.Fetch.Default must be > 0"],
      [ns |-> "Consumer", field |-> "Consumer.Fetch.Max", kind |-> "ge", bound |-> 0, msg |-> "Consumer.Fetch.Max must be >= 0"],
      [ns |-> "Consumer", field |-> "Consumer.MaxWaitTime", kind |-> "ge", bound |-> Millisecond, msg |-> "Consumer.MaxWaitTime must be > 1ms"],
      [ns |-> "top-level", field |-> "ChannelBufferSize", kind |-> "ge", bound |-> 0, msg |-> "ChannelBufferSize must be >= 0"]>>

\* the same checks with Consumer.Retry.Backoff moved behind Consumer.MaxWaitTime
RetryBackoffLast ==
    [i \in 1..Len(TableOrder) |->
        IF i < 20 \/ i > 24 THEN TableOrder[i]
        ELSE IF i = 24 THEN TableOrder[20]
        ELSE TableOrder[i + 1]]

NamespaceOrder == <<"Net", "Metadata", "Producer", "Consumer", "top-level">>

NsIndex(ns) == CHOOSE i \in 1..Len(NamespaceOrder) : NamespaceOrder[i] = ns

\* check k is violated by cfg
Broken(cfg, k) ==
    CASE k.kind = "gt" -> cfg[k.field] <= k.bound
      [] k.kind = "ge" -> cfg[k.field] < k.bound
      [] k.kind = "set" -> cfg[k.field] = NilPartitioner
      [] k.kind = "cross" ->
            /\ cfg["Producer.Flush.MaxMessages"] > 0
            /\ cfg["Producer.Flush.MaxMessages"] < cfg["Producer.Flush.Messages"]

Checks == {TableOrder[i] : i \in 1..Len(TableOrder)}

BrokenChecks(cfg) == {k \in Checks : Broken(cfg, k)}

\* the check whose message error e carries
CheckOf(e) == CHOOSE k \in Checks : k.msg = e.msg

\* the error of the first check of namespace ns, in the given order, that cfg violates
FirstBrokenIn(order, ns, cfg) ==
    LET hit == {i \in 1..Len(order) : order[i].ns = ns /\ Broken(cfg, order[i])}
    IN  ConfigurationError(order[CHOOSE i \in hit : \A j \in hit : i <= j].msg)

\* every check that is not on field f holds of cfg
OthersHold(cfg, f) == \A k \in Checks : k.field # f => ~Broken(cfg, k)

\* ---------------------------------------------------------------- C1
\* C1: the configuration NewConfig returns, validated with no field assigned in
\* between, passes: Validate returns nil.
C1_DefaultPasses == (muts = 0 /\ calls > 0) => err = nil

C1_Witness == muts = 0 /\ calls > 0 /\ c = NewConfig /\ err = nil

C4_StrictlyAboveOneMs ==
    (/\ calls > 0
     /\ c["Consumer.MaxWaitTime"] <= Millisecond
     /\ OthersHold(c, "Consumer.MaxWaitTime"))
        => err = ConfigurationError("Consumer.MaxWaitTime must be > 1ms")

\* ---------------------------------------------------------------- C5
ClientIDLine == "ClientID is the default of 'sarama', you should consider setting it to something application-specific."

Count(seq, x) == Cardinality({i \in 1..Len(seq) : seq[i] = x})

\* C5: a ClientID left unset (the "" NewConfig leaves) or equal to "sarama" makes
\* Validate log the default-ClientID advisory exactly once, and no error Validate
\* returns is about ClientID.
C5_DefaultClientIDAdvisory ==
    (calls > 0 /\ c["ClientID"] \in {"", "sarama"}) =>
        /\ Count(log, ClientIDLine) = 1
        /\ (err # nil => CheckOf(err).field # "ClientID")

\* ---------------------------------------------------------------- C6
\* the seven advisory conditions in the order of the validator's list
AdvisoryHolds(cfg, i) ==
    CASE i = 1 -> cfg["Producer.RequiredAcks"] > 1
      [] i = 2 -> cfg["Producer.MaxMessageBytes"] >= forceFlushThreshold
      [] i = 3 -> cfg["Producer.Flush.Bytes"] >= forceFlushThreshold
      [] i = 4 -> cfg["Producer.Timeout"] % Millisecond # 0
      [] i = 5 -> cfg["Consumer.MaxWaitTime"] < 100 * Millisecond
      [] i = 6 -> cfg["Consumer.MaxWaitTime"] % Millisecond # 0
      [] i = 7 -> cfg["ClientID"] = "sarama"

AdvisoryLine ==
    <<"Producer.RequiredAcks > 1 is deprecated and will raise an exception with kafka >= 0.8.2.0.",
      "Producer.MaxMessageBytes is too close to MaxRequestSize; it will be ignored.",
      "Producer.Flush.Bytes is too close to MaxRequestSize; it will be ignored.",
      "Producer.Timeout only supports millisecond resolution; nanoseconds will be truncated.",
      "Consumer.MaxWaitTime is very low, which can cause high CPU and network usage. See documentation for details.",
      "Consumer.MaxWaitTime only supports millisecond precision; nanoseconds will be truncated.",
      ClientIDLine>>

ExpectedLog(cfg) ==
    LET held == SelectSeq(<<1, 2, 3, 4, 5, 6, 7>>, LAMBDA i : AdvisoryHolds(cfg, i))
    IN  [j \in 1..Len(held) |-> AdvisoryLine[held[j]]]

\* the fields the advisory conditions read
AdvisoryFields ==
    {"Producer.RequiredAcks", "Producer.MaxMessageBytes", "Producer.Flush.Bytes",
     "Producer.Timeout", "Consumer.MaxWaitTime", "ClientID"}

\* the indices of the checks cfg violates
BrokenIndices(cfg) == {i \in 1..Len(TableOrder) : Broken(cfg, TableOrder[i])}

StrictBound ==
    {"Net.MaxOpenRequests", "Net.DialTimeout", "Net.ReadTimeout", "Net.WriteTimeout",
     "Producer.MaxMessageBytes", "Producer.Timeout",
     "Consumer.Fetch.Min", "Consumer.Fetch.Default", "Consumer.MaxWaitTime"}

WeakBound ==
    {"Net.KeepAlive", "Metadata.Retry.Max", "Metadata.Retry.Backoff", "Metadata.RefreshFrequency",
     "Producer.RequiredAcks", "Producer.Flush.Bytes", "Producer.Flush.Messages",
     "Producer.Flush.Frequency", "Producer.Flush.MaxMessages", "Producer.Retry.Max",
     "Producer.Retry.Backoff", "Consumer.Retry.Backoff", "Consumer.Fetch.Max",
     "ChannelBufferSize"}

LowerBound(f) ==
    CASE f = "Consumer.MaxWaitTime" -> Millisecond
      [] f = "Producer.RequiredAcks" -> -1
      [] OTHER -> 0

\* C7: starting from a configuration that passed Validate and assigning one field
\* with a lower bound: one unit below the bound, Validate returns an error naming
\* that field; at the bound (>= bounds) or one unit above it (> bounds), Validate
\* returns nil.
C7_BoundaryOfEachField ==
    (calls > 0 /\ lastSet \in StrictBound \cup WeakBound) =>
        /\ c[lastSet] = LowerBound(lastSet) - 1 =>
                err # nil /\ CheckOf(err).field = lastSet
        /\ c[lastSet] = (IF lastSet \in StrictBound THEN LowerBound(lastSet) + 1
                                                   ELSE LowerBound(lastSet)) =>
                err = nil

C7_Witness ==
    /\ calls > 0
    /\ lastSet = "Consumer.MaxWaitTime"
    /\ c[lastSet] = Millisecond - 1
    /\ err = ConfigurationError("Consumer.MaxWaitTime must be > 1ms")

\* ---------------------------------------------------------------- C8
CrossFieldError == ConfigurationError("Producer.Flush.MaxMessages must be >= Producer.Flush.Messages when set")

\* C8: with every other check satisfied, Validate returns the cross-field error
\* exactly when 0 < Flush.MaxMessages < Flush.Messages, and nil otherwise.
C8_CrossField ==
    (calls > 0 /\ \A k \in Checks : k.kind # "cross" => ~Broken(c, k)) =>
        err = IF /\ c["Producer.Flush.MaxMessages"] > 0
                 /\ c["Producer.Flush.MaxMessages"] < c["Producer.Flush.Messages"]
              THEN CrossFieldError
              ELSE nil

C8_Witness ==
    /\ calls > 0
    /\ c["Producer.Flush.MaxMessages"] = 5
    /\ c["Producer.Flush.Messages"] = 10
    /\ err = CrossFieldError

\* ---------------------------------------------------------------- C9
\* C9: with every other check satisfied, RequiredAcks > 1 passes with the
\* deprecated-acks advisory, RequiredAcks in {-1, 0, 1} passes without it, and
\* RequiredAcks < -1 returns the Producer.RequiredAcks error.
C9_RequiredAcks ==
    (calls > 0 /\ OthersHold(c, "Producer.RequiredAcks")) =>
        LET acks == c["Producer.RequiredAcks"]
        IN  /\ acks > 1 => (err = nil /\ Count(log, AdvisoryLine[1]) = 1)
            /\ acks \in {-1, 0, 1} => (err = nil /\ Count(log, AdvisoryLine[1]) = 0)
            /\ acks < -1 => err = ConfigurationError("Producer.RequiredAcks must be >= -1")

C9_Witness ==
    /\ calls > 0
    /\ c["Producer.RequiredAcks"] = 2
    /\ err = nil
    /\ Count(log, AdvisoryLine[1]) = 1

\* ---------------------------------------------------------------- C10
\* C10: a call of Validate leaves every field of the Config as it was, and a second
\* call in a row returns the same result and logs the same advisories as the first.
C10_ReadOnlyDeterministic ==
    [][ValidateCall => (c' = c /\ (calls > 0 => (err' = err /\ log' = log)))]_vars

C10_Witness ==
    /\ calls = 2
    /\ err # nil
    /\ c["Producer.Timeout"] % Millisecond # 0

====
